---- MODULE Spec2Model ----
(***************************************************************************)
(* Model of the regolancer rebalance engine: the session orchestrator      *)
(* (main), tryRebalance, tryRapidRebalance (src/main.go) and the route     *)
(* finder getRoutes / getChanInfo / getNodeInfo (src/routes.go).           *)
(*                                                                         *)
(* Time is counted in ticks of 30 seconds.  A context is a record          *)
(* [deadline, session]: its deadline in ticks and whether it descends from *)
(* the session context mainCtx (and so is cancelled with it).              *)
(***************************************************************************)
EXTENDS Integers, Sequences, FiniteSets, TLC

----------------------------------------------------------------------------
(* Bounds of the model *)

\* params.TimeoutRebalance, in ticks (main.go:473)
TimeoutRebalance == 3
\* params.TimeoutAttempt, in ticks (main.go:166, main.go:334)
TimeoutAttempt == 2
\* params.TimeoutRoute, in ticks (main.go:175)
TimeoutRoute == 1
\* the clock stops here: calls made under context.Background() have no
\* deadline of their own
MaxTime == 4
\* at most this many candidate routes come back from one QueryRoutes
MaxRoutes == 2
\* the liquidity of the pair allows at most this many rapid payments
MaxRapid == 2

(* Program constants *)

\* the literal timeout of getRoutes' own context: 30 seconds = 1 tick
GetRoutesTimeout == 1
\* the divisor 1e6 of calcFeeMsat
Million == 1000000

NoDeadline == MaxTime + TimeoutRebalance + 100

\* a nil error
NoError == ""

Min(a, b) == IF a <= b THEN a ELSE b

----------------------------------------------------------------------------
(* Contexts *)

Background == [deadline |-> NoDeadline, session |-> FALSE]

\* context.WithTimeout(parent, d) called at time t
WithTimeout(parent, d, t) ==
    [deadline |-> Min(parent.deadline, t + d), session |-> parent.session]

\* mainCtx: the session context, created at time 0
MainCtx == [deadline |-> TimeoutRebalance, session |-> TRUE]

\* ctx.Err() == context.DeadlineExceeded, for a context not cancelled before
\* its deadline
DeadlineExceeded(ctx, t) == t >= ctx.deadline

----------------------------------------------------------------------------
(* The channel graph as the node reports it *)

MyPK == "02aa"

\* public keys that hex.DecodeString accepts
HexKeys == {"02aa", "03b1", "03b2", "03b3", "03c1", "03c2"}

HexDecodeOk(pk) == pk \in HexKeys

Policy(base, rate) == [FeeBaseMsat |-> base, FeeRateMilliMsat |-> rate]

NoPolicy == Policy(-1, -1)

Edge(n1, n2, p1, p2) ==
    [Node1Pub |-> n1, Node2Pub |-> n2, Node1Policy |-> p1, Node2Policy |-> p2]

NoEdge == Edge("", "", NoPolicy, NoPolicy)

----------------------------------------------------------------------------
(* routes.go: calcFeeMsat and the fee limit of getRoutes *)

\* a * b / d in int64 arithmetic for a, b >= 0 (quotient truncated), with
\* a split at d so that no intermediate product leaves the checker's range
MulDiv(a, b, d) == (a \div d) * b + ((a % d) * b) \div d

CalcFeeMsatWrongScale(amtMsat, policy) ==
    policy.FeeBaseMsat + MulDiv(amtMsat, policy.FeeRateMilliMsat, 1000)

calcFeeMsat(amtMsat, policy) ==
    policy.FeeBaseMsat + MulDiv(amtMsat, policy.FeeRateMilliMsat, Million)

\* a float64 ratio n/d with d a power of two: the products below are exact
Ratio(n, d) == [n |-> n, d |-> d]

\* int64(float64(fee) * ratio)
FeeLimitMsat(fee, ratio) == (fee * ratio.n) \div ratio.d

\* lastPKstr of getRoutes
SelectLastPK(c) == IF c.Node1Pub = MyPK THEN c.Node2Pub ELSE c.Node1Pub

SelectPolicySwapped(c) ==
    IF c.Node1Pub = MyPK THEN c.Node2Policy ELSE c.Node1Policy

\* policy of getRoutes
SelectPolicy(c) == IF c.Node1Pub = MyPK THEN c.Node1Policy ELSE c.Node2Policy

----------------------------------------------------------------------------
(* Configuration *)

\* preflightChecks, the fee part (main.go:380-385): ok = FALSE is the error
\* "use either econ-ratio-max-ppm or fee-limit-ppm but not both"
PreflightFee(p) ==
    LET q == IF p.EconRatio.n = 0 /\ p.FeeLimitPPM = 0
             THEN [p EXCEPT !.EconRatio = Ratio(1, 1)]
             ELSE p
    IN  [ok |-> ~(q.EconRatioMaxPPM # 0 /\ q.FeeLimitPPM # 0), params |-> q]

Config(amount, minAmount, steps, rapid, ratio, maxPPM, limitPPM) ==
    [Amount |-> amount, MinAmount |-> minAmount, ProbeSteps |-> steps,
     AllowRapidRebalance |-> rapid, EconRatio |-> ratio,
     EconRatioMaxPPM |-> maxPPM, FeeLimitPPM |-> limitPPM,
     RelAmountFrom |-> Ratio(0, 1), RelAmountTo |-> Ratio(0, 1),
     ExcludeChannelsIn |-> <<>>]

\* preflightChecks, the fee and amount parts (main.go:380-408), in the order
\* of the code: the error returned and params as the checks leave it
preflightChecks(p) ==
    LET fee == PreflightFee(p)
        q == fee.params
        relSet == q.RelAmountFrom.n > 0 \/ q.RelAmountTo.n > 0
    IN  [params |-> q,
         err |->
           IF ~fee.ok
           THEN "use either econ-ratio-max-ppm or fee-limit-ppm but not both"
           ELSE IF q.MinAmount > 0 /\ q.Amount > 0 /\ q.MinAmount > q.Amount
           THEN "minimum amount should be less than amount"
           ELSE IF q.Amount > 0 /\ relSet
           THEN "use either precise amount or relative amounts but not both"
           ELSE IF q.Amount = 0 /\ q.RelAmountFrom.n = 0 /\ q.RelAmountTo.n = 0
           THEN "no amount specified, use either --amount, --rel-amount-from, or --rel-amount-to"
           ELSE IF relSet /\ q.AllowRapidRebalance
           THEN "use either relative amounts or rapid rebalance but not both"
           ELSE NoError]

\* the configurations of the session model: amounts in satoshis
SessionConfigs ==
    { Config(100000, 0, 0, FALSE, Ratio(0, 1), 0, 0),
      Config(100000, 0, 1, TRUE, Ratio(0, 1), 0, 0),
      Config(100000, 1000, 1, TRUE, Ratio(0, 1), 0, 0),
      Config(100000, 1000, 1, FALSE, Ratio(0, 1), 0, 0) }

\* amounts the prober may come back with (ErrRetry.amount), and amounts the
\* pair picker may clamp a rapid payment to
ProbeAmounts == {1000, 50000}

----------------------------------------------------------------------------
(* Channels, edges and routes of the session model *)

FromChans == {1, 2}
ToChans == {3}
ChanIds == FromChans \cup ToChans

PeerOf(c) == IF c = 1 THEN "03b1" ELSE IF c = 2 THEN "03b2" ELSE "03b3"

OurPolicy == Policy(1000, 500)
TheirPolicy == Policy(0, 100)

\* our node is Node1 of every channel, or Node2 of every channel
GraphAsNode1 == [c \in ChanIds |-> Edge(MyPK, PeerOf(c), OurPolicy, TheirPolicy)]
GraphAsNode2 == [c \in ChanIds |-> Edge(PeerOf(c), MyPK, TheirPolicy, OurPolicy)]

\* a route through one intermediate node pk, whose hops charge base + ppm of
\* the amount it carries
Route(pk, base, ppm, amtMsat) ==
    [pk |-> pk, base |-> base, ppm |-> ppm, amtMsat |-> amtMsat]

NoRoute == Route("", 0, 0, 0)

RouteShapes == {Route("03c1", 0, 100, 0), Route("03c2", 2000, 100, 0)}

NodeKeys == {r.pk : r \in RouteShapes}

\* the network fee of a route at the amount it was built for
RouteFee(r) == r.base + MulDiv(r.amtMsat, r.ppm, Million)

AtAmount(r, amtMsat) == [r EXCEPT !.amtMsat = amtMsat]

\* what QueryRoutes may answer: up to MaxRoutes distinct routes for amtMsat
\* whose fee is within the FeeLimit of the request
RouteAnswers(amtMsat, feeLimit) ==
    LET ok == {AtAmount(r, amtMsat) : r \in
                 {x \in RouteShapes : RouteFee(AtAmount(x, amtMsat)) <= feeLimit}}
    IN  {s \in UNION {[1..n -> ok] : n \in 1..MaxRoutes} :
            \A i, j \in DOMAIN s : i # j => s[i] # s[j]}

----------------------------------------------------------------------------
(* Channel ids in string form: convertChanStringToInt *)

\* the width of a channel id (64 bits in the program, scaled down) and of
\* the transaction index and output index packed into it
IdBits == 8
TxBits == 3
OutBits == 2

RECURSIVE Pow2(_)
Pow2(n) == IF n = 0 THEN 1 ELSE 2 * Pow2(n - 1)

BlockBits == IdBits - TxBits - OutBits

\* every value of a channel id
AllChanIds == 0 .. (Pow2(IdBits) - 1)

\* a string is a sequence of one-character strings
DigitChars == <<"0", "1", "2", "3", "4", "5", "6", "7", "8", "9">>

IsDigit(c) == \E d \in DOMAIN DigitChars : DigitChars[d] = c

DigitOf(c) == (CHOOSE d \in DOMAIN DigitChars : DigitChars[d] = c) - 1

\* the decimal string of an unsigned number
RECURSIVE FormatUint(_)
FormatUint(n) ==
    IF n < 10
    THEN <<DigitChars[n + 1]>>
    ELSE FormatUint(n \div 10) \o <<DigitChars[(n % 10) + 1]>>

\* the value of a string of decimal digits
RECURSIVE DecimalValue(_)
DecimalValue(ds) ==
    IF ds = <<>>
    THEN 0
    ELSE 10 * DecimalValue(SubSeq(ds, 1, Len(ds) - 1)) + DigitOf(ds[Len(ds)])

\* strconv.ParseInt(s, 10, bits): an optional sign, then decimal digits; the
\* value must fit a signed integer of that many bits
ParseInt(s, bits) ==
    LET signed == Len(s) > 0 /\ s[1] \in {"+", "-"}
        neg == Len(s) > 0 /\ s[1] = "-"
        ds == IF signed THEN Tail(s) ELSE s
    IN  IF ds = <<>> \/ \E i \in DOMAIN ds : ~IsDigit(ds[i])
        THEN [err |-> "invalid syntax", value |-> 0]
        ELSE LET v == DecimalValue(ds)
             IN  IF ~neg /\ v > Pow2(bits - 1) - 1
                 THEN [err |-> "value out of range",
                       value |-> Pow2(bits - 1) - 1]
                 ELSE IF neg /\ v > Pow2(bits - 1)
                 THEN [err |-> "value out of range", value |-> -Pow2(bits - 1)]
                 ELSE [err |-> NoError, value |-> IF neg THEN -v ELSE v]

\* strings.ToLower, on the characters of a channel id
ToLower(s) == [i \in DOMAIN s |-> IF s[i] = "X" THEN "x" ELSE s[i]]

\* strings.Count(s, c)
Count(s, c) == Cardinality({i \in DOMAIN s : s[i] = c})

\* uint64(chanId) of a signed chanId
ToUint(v) == v % Pow2(IdBits)

\* the three fields of a short channel id, packed
PackScid(block, tx, out) ==
    (block * Pow2(TxBits) + tx) * Pow2(OutBits) + out

\* parseScid: the fields between the two "x" are parsed and packed; a field
\* that is not a number of its width is an error
parseScid(cid) ==
    LET low == ToLower(cid)
        xs == {i \in DOMAIN low : low[i] = "x"}
        x1 == CHOOSE i \in xs : \A j \in xs : i <= j
        x2 == CHOOSE i \in xs : \A j \in xs : j <= i
        block == ParseInt(SubSeq(low, 1, x1 - 1), BlockBits + 1)
        tx == ParseInt(SubSeq(low, x1 + 1, x2 - 1), TxBits + 1)
        out == ParseInt(SubSeq(low, x2 + 1, Len(low)), OutBits + 1)
    IN  IF \E f \in {block, tx, out} : f.err # NoError \/ f.value < 0
        THEN [err |-> "invalid scid", value |-> 0]
        ELSE [err |-> NoError,
              value |-> PackScid(block.value, tx.value, out.value)]

\* one turn of the loop of convertChanStringToInt
ConvertChanString(cid) ==
    LET parsed == ParseInt(cid, IdBits)
        isScid == Count(ToLower(cid), "x") = 2
        scid == parseScid(cid)
    IN  IF parsed.err = NoError
        THEN [fatal |-> FALSE, chanId |-> ToUint(parsed.value)]
        ELSE IF isScid /\ scid.err = NoError
        THEN [fatal |-> FALSE, chanId |-> ToUint(scid.value)]
        ELSE [fatal |-> TRUE, chanId |-> 0]

\* convertChanStringToInt(chanIds): the ids in the order of the strings, or
\* log.Fatalf at the first string that is neither form
RECURSIVE convertChanStringToInt(_)
convertChanStringToInt(chanIds) ==
    IF chanIds = <<>>
    THEN [fatal |-> FALSE, channels |-> <<>>]
    ELSE LET one == ConvertChanString(Head(chanIds))
             rest == convertChanStringToInt(Tail(chanIds))
         IN  IF one.fatal \/ rest.fatal
             THEN [fatal |-> TRUE, channels |-> <<>>]
             ELSE [fatal |-> FALSE,
                   channels |-> <<one.chanId>> \o rest.channels]

\* makeChanSet
makeChanSet(chans) == {chans[i] : i \in DOMAIN chans}

\* the BBBxTTTxOOO form of a channel id
FormatScid(id) ==
    FormatUint(id \div Pow2(TxBits + OutBits)) \o <<"x">>
        \o FormatUint((id \div Pow2(OutBits)) % Pow2(TxBits)) \o <<"x">>
        \o FormatUint(id % Pow2(OutBits))

----------------------------------------------------------------------------
(* State *)

VARIABLES
    params,        \* the configuration after preflightChecks
    graph,         \* chan id -> edge, as the node answers GetChanInfo
    chanCache,     \* r.chanCache: chan id -> edge, NoEdge when absent
    nodeCache,     \* r.nodeCache: the public keys cached
    failureCache,  \* r.failureCache: the (from, to) pairs marked failed
    fromChannels,  \* r.fromChannels
    toChannels,    \* r.toChannels
    excludeIn,     \* r.excludeIn
    channels,      \* r.channels: the ids of the channels listed
    channelPairs,  \* r.channelPairs: the working set of (from, to) pairs
    fromChannelId, \* r.fromChannelId: the source inclusion set
    toChannelId,   \* r.toChannelId: the target inclusion set
    pc,            \* where the main goroutine is
    tr,            \* the locals of tryRebalance: from, to, amt (sat), routes,
                   \* the index ri and the route of the current turn,
                   \* attemptCtx, routeCtx
    callCtx,       \* the context of the call in progress
    rapid,         \* the locals of tryRapidRebalance and what it returned
    query,         \* the QueryRoutes request issued by the last step
    lastCalls,     \* the RPC and pay calls issued by the last step
    lastPay,       \* the payment dispatched by the last step
    result,        \* what tryRebalance returned, as main saw it
    paid,          \* some rebalance payment has succeeded
    now,           \* the clock, in ticks
    pcH,           \* where the interrupt handler goroutine is
    saved,         \* who has called saveNodeCache
    exit           \* how the process ended

vars ==
    <<params, graph, chanCache, nodeCache, failureCache, fromChannels,
      toChannels, excludeIn, channels, channelPairs, fromChannelId,
      toChannelId, pc, tr, callCtx, rapid, query, lastCalls, lastPay, result,
      paid, now, pcH, saved, exit>>

NoTr ==
    [from |-> 0, to |-> 0, amt |-> 0, routes |-> <<>>, ri |-> 0,
     route |-> NoRoute, attemptCtx |-> Background, routeCtx |-> Background]

NoQuery ==
    [OutgoingChanId |-> 0, LastHopPubkey |-> "", AmtMsat |-> 0, FixedMsat |-> 0,
     edge |-> NoEdge, policy |-> NoPolicy]

Call(op, ctx) == [op |-> op, ctx |-> ctx]

Payment(kind, ctx, a, minAmount, route, steps) ==
    [kind |-> kind, ctx |-> ctx, amt |-> a, minAmount |-> minAmount,
     route |-> route, probeSteps |-> steps]

NoPay == Payment("none", Background, 0, 0, NoRoute, 0)

NoResult == [cause |-> "none", retry |-> FALSE, timedOut |-> FALSE]

NoRapid ==
    [runs |-> 0, rapidAttempt |-> 0, returned |-> -1, paidOk |-> 0,
     fetching |-> "to", rpcs |-> {}]

Running == [code |-> -1, by |-> "none", msg |-> ""]

InitCommon ==
    /\ chanCache = [c \in ChanIds |-> NoEdge]
    /\ nodeCache = {}
    /\ failureCache = {}
    /\ fromChannels = {}
    /\ toChannels = {}
    /\ excludeIn = {}
    /\ channels = {}
    /\ channelPairs = {}
    /\ fromChannelId = {}
    /\ toChannelId = {}
    /\ tr = NoTr
    /\ callCtx = Background
    /\ rapid = NoRapid
    /\ query = NoQuery
    /\ lastCalls = {}
    /\ lastPay = NoPay
    /\ result = NoResult
    /\ paid = FALSE
    /\ now = 0
    /\ pcH = "off"
    /\ saved = {}
    /\ exit = Running

\* main, before channel classification: the configuration passed
\* preflightChecks and mainCtx was created at time 0
Init ==
    /\ params \in {PreflightFee(c).params :
                     c \in {x \in SessionConfigs : PreflightFee(x).ok}}
    /\ graph \in {GraphAsNode1, GraphAsNode2}
    /\ pc = "startup"
    /\ InitCommon

----------------------------------------------------------------------------
(* main and tryRebalance *)

\* the key the node cache file may hold when loadNodeCache reads it
LoadableKeys == {"03c1"}

PickErrorRetryTrue == TRUE

PaidRetryTrue == TRUE

\* the value of retry at each return of tryRebalance
PickErrorRetry == FALSE
RouteTimeoutRetry == FALSE
RouteErrorRetry == TRUE
PaidRetry == FALSE
RoutesDoneRetry == TRUE

\* exit codes: log.Fatal, os.Exit(1) of the interrupt handler, return of main
FatalExitCode == 1
HandlerExitCode == 1
MainExitCode == 0

\* log.Fatal(msg): the message is logged and the process exits with code 1
Fatal(msg) == [code |-> FatalExitCode, by |-> "fatal", msg |-> msg]

\* r.channelPairs as pickChannelPair leaves it: when the working set is
\* empty it is filled with the pairs of a source and a target that are two
\* channels and are not in the failure cache
PairsForPick ==
    IF channelPairs = {}
    THEN {x \in fromChannels \X toChannels :
            x[1] # x[2] /\ x \notin failureCache}
    ELSE channelPairs

\* pickChannelPair: the triples it may return; none is the error
\* "no candidate"
PickChannelPair(amount) ==
    {<<x[1], x[2], amount>> : x \in {y \in PairsForPick : y \notin failureCache}}

\* the loop of main after tryRebalance returned retry
MainAfter(cause, retry) ==
    /\ result' = [cause |-> cause, retry |-> retry,
                  timedOut |-> DeadlineExceeded(MainCtx, now)]
    /\ pc' = IF DeadlineExceeded(MainCtx, now) \/ ~retry
             THEN "main_return" ELSE "main_loop"

\* tryRebalance returns to main
Finish(cause, retry, calls) ==
    /\ MainAfter(cause, retry)
    /\ tr' = NoTr
    /\ callCtx' = Background
    /\ query' = NoQuery
    /\ lastPay' = NoPay
    /\ lastCalls' = calls

\* the main goroutine blocks in a call made under ctx
Wait(where, t, ctx, calls) ==
    /\ pc' = where
    /\ tr' = t
    /\ callCtx' = ctx
    /\ query' = NoQuery
    /\ lastPay' = NoPay
    /\ lastCalls' = calls
    /\ result' = NoResult

RouteFailedNoCache(t, calls) ==
    /\ failureCache' = failureCache
    /\ IF DeadlineExceeded(t.routeCtx, now)
       THEN Finish("route_timeout", RouteTimeoutRetry, calls)
       ELSE Finish("route_error", RouteErrorRetry, calls)

\* tryRebalance when getRoutes returned an error
RouteFailed(t, calls) ==
    IF DeadlineExceeded(t.routeCtx, now)
    THEN /\ failureCache' = failureCache
         /\ Finish("route_timeout", RouteTimeoutRetry, calls)
    ELSE /\ failureCache' = failureCache \cup {<<t.from, t.to>>}
         /\ Finish("route_error", RouteErrorRetry, calls)

getChanInfoNoCache(cache, g, chanId) == [edge |-> g[chanId], rpc |-> TRUE]

\* getChanInfo(ctx, chanId) when the RPC, if one is made, succeeds: the edge
\* returned and whether the GetChanInfo RPC was made; g is what the node
\* answers
getChanInfo(cache, g, chanId) ==
    IF cache[chanId] # NoEdge
    THEN [edge |-> cache[chanId], rpc |-> FALSE]
    ELSE [edge |-> g[chanId], rpc |-> TRUE]

\* getRoutes once it holds the edge c of the target channel
QueryRoutesRequest(c, f, amtMsat, ratio) ==
    LET policy == SelectPolicy(c)
        feeMsat == FeeLimitMsat(calcFeeMsat(amtMsat, policy), ratio)
    IN  [OutgoingChanId |-> f, LastHopPubkey |-> SelectLastPK(c),
         AmtMsat |-> amtMsat, FixedMsat |-> feeMsat, edge |-> c,
         policy |-> policy]

\* getRoutes(from, to, amt*1000, params.EconRatio) in tryRebalance, from the
\* edge c on
IssueQuery(c, t, gctx, calls) ==
    IF ~HexDecodeOk(SelectLastPK(c))
        THEN RouteFailed(t, calls)
        ELSE /\ query' = QueryRoutesRequest(c, t.from, t.amt * 1000,
                                            params.EconRatio)
             /\ lastCalls' = calls \cup {Call("QueryRoutes", gctx)}
             /\ callCtx' = gctx
             /\ pc' = "query_routes"
             /\ tr' = t
             /\ failureCache' = failureCache
             /\ lastPay' = NoPay
             /\ result' = NoResult

DispatchPay(kind, ctx, a, minAmount, route, steps, where, t, calls) ==
    /\ lastPay' = Payment(kind, ctx, a, minAmount, route, steps)
    /\ lastCalls' = calls \cup {Call("pay", ctx)}
    /\ callCtx' = ctx
    /\ tr' = [t EXCEPT !.route = route]
    /\ pc' = where
    /\ query' = NoQuery
    /\ result' = NoResult

\* pay(attemptCtx, amt, params.MinAmount, route, params.ProbeSteps)
FirstPay(t, calls) ==
    DispatchPay("first", t.attemptCtx, t.amt, params.MinAmount, t.route,
                params.ProbeSteps, "pay", t, calls)

\* one turn of the loop over routes: printRoute, then pay
StartRoute(t, calls) ==
    IF t.route.pk \in nodeCache
    THEN FirstPay(t, calls)
    ELSE Wait("get_node_info", t, Background,
              calls \cup {Call("GetNodeInfo", Background)})

\* the end of a turn of the loop over routes
NextRoute(t, calls) ==
    IF t.ri < Len(t.routes)
    THEN StartRoute([t EXCEPT !.ri = @ + 1, !.route = t.routes[t.ri + 1]], calls)
    ELSE Finish("routes_done", RoutesDoneRetry, calls)

StartupFatalMsgSourceOnly(src, tgt) ==
    IF src = {} THEN "No source channels selected" ELSE NoError

\* main.go:561-566: the message of the fatal error after classification
StartupFatalMsg(src, tgt) ==
    IF src = {} THEN "No source channels selected"
    ELSE IF tgt = {} THEN "No target channels selected"
    ELSE NoError

\* main.go:482-582: getChannels, classification, loadNodeCache, the
\* interrupt handler
Startup ==
    /\ pc = "startup" /\ exit = Running
    /\ \E src \in SUBSET FromChans, tgt \in SUBSET ToChans :
         /\ fromChannels' = src
         /\ toChannels' = tgt
         /\ IF StartupFatalMsg(src, tgt) # NoError
            THEN /\ exit' = Fatal(StartupFatalMsg(src, tgt))
                 /\ pc' = "exited"
                 /\ UNCHANGED <<nodeCache, pcH>>
            ELSE /\ \E nc \in SUBSET LoadableKeys : nodeCache' = nc
                 /\ pcH' = "waiting"
                 /\ pc' = "main_loop"
                 /\ exit' = exit
    /\ channels' = ChanIds
    /\ UNCHANGED <<params, graph, excludeIn, channelPairs, fromChannelId,
                   toChannelId, chanCache, failureCache, tr, callCtx, rapid,
                   query, lastCalls, lastPay, result, paid, now, saved>>

\* tryRebalance up to its first blocking call
TryRebalance ==
    /\ pc = "main_loop" /\ exit = Running
    /\ LET actx == WithTimeout(MainCtx, TimeoutAttempt, now)
           rctx == WithTimeout(actx, TimeoutRoute, now)
           gctx == WithTimeout(Background, GetRoutesTimeout, now)
           picks == PickChannelPair(params.Amount)
       IN  IF picks = {}
           THEN /\ Finish("pick_error", PickErrorRetry, {})
                /\ failureCache' = failureCache
           ELSE \E p \in picks :
                  LET t == [NoTr EXCEPT !.from = p[1], !.to = p[2],
                                        !.amt = p[3], !.attemptCtx = actx,
                                        !.routeCtx = rctx]
                  IN  IF chanCache[t.to] # NoEdge
                      THEN IssueQuery(chanCache[t.to], t, gctx, {})
                      ELSE /\ Wait("get_chan_info", t, gctx,
                                   {Call("GetChanInfo", gctx)})
                           /\ failureCache' = failureCache
    /\ channelPairs' = PairsForPick
    /\ UNCHANGED <<params, graph, excludeIn, channels, fromChannelId,
                   toChannelId, chanCache, nodeCache, fromChannels,
                   toChannels, rapid, paid, now, pcH, saved, exit>>

\* getChanInfo inside getRoutes: the GetChanInfo RPC returns
GetChanInfoReturn ==
    /\ pc = "get_chan_info" /\ exit = Running
    /\ \/ /\ RouteFailed(tr, {})
          /\ chanCache' = chanCache
       \/ /\ ~DeadlineExceeded(callCtx, now)
          /\ chanCache' = [chanCache EXCEPT ![tr.to] = graph[tr.to]]
          /\ IssueQuery(graph[tr.to], tr, callCtx, {})
    /\ UNCHANGED <<params, graph, excludeIn, channels, channelPairs, fromChannelId, toChannelId, nodeCache, fromChannels, toChannels, rapid,
                   paid, now, pcH, saved, exit>>

\* the QueryRoutes RPC of getRoutes returns
QueryRoutesReturn ==
    /\ pc = "query_routes" /\ exit = Running
    /\ \/ RouteFailed(tr, {})
       \/ /\ ~DeadlineExceeded(callCtx, now)
          /\ \E rs \in RouteAnswers(query.AmtMsat, query.FixedMsat) :
               StartRoute([tr EXCEPT !.routes = rs, !.ri = 1, !.route = rs[1]],
                          {})
          /\ failureCache' = failureCache
    /\ UNCHANGED <<params, graph, excludeIn, channels, channelPairs, fromChannelId, toChannelId, chanCache, nodeCache, fromChannels, toChannels,
                   rapid, paid, now, pcH, saved, exit>>

\* getNodeInfo inside printRoute: the GetNodeInfo RPC returns; on success
\* the insertion r.nodeCache[pk] = nodeInfo begins
GetNodeInfoReturn ==
    /\ pc = "get_node_info" /\ exit = Running
    /\ \/ FirstPay(tr, {})
       \/ Wait("node_cache_write", tr, Background, {})
    /\ UNCHANGED <<params, graph, excludeIn, channels, channelPairs, fromChannelId, toChannelId, chanCache, nodeCache, failureCache,
                   fromChannels, toChannels, rapid, paid, now, pcH, saved, exit>>

\* the insertion into r.nodeCache ends; printRoute returns and pay is called
NodeCacheWrite ==
    /\ pc = "node_cache_write" /\ exit = Running
    /\ nodeCache' = nodeCache \cup {tr.route.pk}
    /\ FirstPay(tr, {})
    /\ UNCHANGED <<params, graph, excludeIn, channels, channelPairs, fromChannelId, toChannelId, chanCache, failureCache, fromChannels,
                   toChannels, rapid, paid, now, pcH, saved, exit>>

----------------------------------------------------------------------------
(* tryRapidRebalance(ctx, r, from, to, route, amt), ctx being mainCtx *)

RapidReturn(rp, calls) ==
    /\ rapid' = [rp EXCEPT !.returned = rp.rapidAttempt]
    /\ Finish("paid", PaidRetry, calls)

\* ListChannels for the peer of the source channel
RapidListFrom(t, calls) ==
    Wait("rapid_list_from", t, MainCtx,
         calls \cup {Call("ListChannels", MainCtx)})

\* getChanInfo(ctx, to), then getChanInfo(ctx, from), at the top of an
\* iteration: an RPC for the first of them that cache does not hold
RapidGetChanInfo(which, cache, rp, t, calls) ==
    LET miss == IF which = "to" /\ cache[t.to] = NoEdge THEN "to"
                ELSE IF cache[t.from] = NoEdge THEN "from"
                ELSE "none"
    IN  IF miss = "none"
        THEN /\ rapid' = rp
             /\ RapidListFrom(t, calls)
        ELSE /\ rapid' = [rp EXCEPT !.fetching = miss, !.rpcs = @ \cup {miss}]
             /\ Wait("rapid_chan_info", t, MainCtx,
                     calls \cup {Call("GetChanInfo", MainCtx)})

\* tryRapidRebalance is entered after a successful payment
StartRapid(t, calls) ==
    RapidGetChanInfo("to", chanCache,
                     [runs |-> rapid.runs + 1, rapidAttempt |-> 0,
                      returned |-> -1, paidOk |-> 0, fetching |-> "to",
                      rpcs |-> {}],
                     t, calls)

\* a GetChanInfo RPC of tryRapidRebalance returns
RapidChanInfoReturn ==
    /\ pc = "rapid_chan_info" /\ exit = Running
    /\ LET chan == IF rapid.fetching = "to" THEN tr.to ELSE tr.from
       IN  \/ /\ RapidReturn(rapid, {})
              /\ chanCache' = chanCache
           \/ /\ ~DeadlineExceeded(callCtx, now)
              /\ chanCache' = [chanCache EXCEPT ![chan] = graph[chan]]
              /\ IF rapid.fetching = "to"
                 THEN RapidGetChanInfo("from", chanCache', rapid, tr, {})
                 ELSE /\ rapid' = rapid
                      /\ RapidListFrom(tr, {})
    /\ UNCHANGED <<params, graph, excludeIn, channels, channelPairs, fromChannelId, toChannelId, nodeCache, failureCache, fromChannels,
                   toChannels, paid, now, pcH, saved, exit>>

\* ListChannels for the source peer returns; ListChannels for the target
\* peer is called
RapidListFromReturn ==
    /\ pc = "rapid_list_from" /\ exit = Running
    /\ \/ RapidReturn(rapid, {})
       \/ /\ ~DeadlineExceeded(callCtx, now)
          /\ Wait("rapid_list_to", tr, MainCtx, {Call("ListChannels", MainCtx)})
          /\ rapid' = rapid
    /\ UNCHANGED <<params, graph, excludeIn, channels, channelPairs, fromChannelId, toChannelId, chanCache, nodeCache, failureCache,
                   fromChannels, toChannels, paid, now, pcH, saved, exit>>

RapidResetKeepsFailureCache ==
    /\ fromChannelId' = {tr.from}
    /\ toChannelId' = {tr.to}
    /\ channels' = {tr.to, tr.from}
    /\ fromChannels' = {}
    /\ toChannels' = {}
    /\ failureCache' = failureCache
    /\ channelPairs' = {}

\* main.go:286-309: the inclusion sets become {from} and {to}, r.channels
\* becomes the channels of the two peers, and the working state is emptied
RapidReset ==
    /\ fromChannelId' = {tr.from}
    /\ toChannelId' = {tr.to}
    /\ channels' = {tr.to, tr.from}
    /\ fromChannels' = {}
    /\ toChannels' = {}
    /\ failureCache' = {}
    /\ channelPairs' = {}

\* ListChannels for the target peer returns, and the working state is reset
RapidListToReturn ==
    /\ pc = "rapid_list_to" /\ exit = Running
    /\ \/ /\ RapidReturn(rapid, {})
          /\ UNCHANGED <<failureCache, fromChannels, toChannels, channels,
                         channelPairs, fromChannelId, toChannelId>>
       \/ /\ ~DeadlineExceeded(callCtx, now)
          /\ RapidReset
          /\ Wait("rapid_candidates", tr, MainCtx, {})
          /\ rapid' = rapid
    /\ UNCHANGED <<params, graph, excludeIn, chanCache, nodeCache, paid, now,
                   pcH, saved, exit>>

\* getChannelCandidates in a rapid iteration: which of the channels in the
\* inclusion sets still qualify; nothing qualifies once the liquidity is
\* used up
RapidCandidates ==
    IF rapid.rapidAttempt >= MaxRapid
    THEN {<<{}, {}>>}
    ELSE (SUBSET (fromChannelId \cap channels))
             \X (SUBSET (toChannelId \cap channels))

\* getChannelCandidates(params.FromPerc, params.ToPerc, amt) returns an
\* error, or fills r.fromChannels and r.toChannels
RapidGetChannelCandidates ==
    /\ pc = "rapid_candidates" /\ exit = Running
    /\ \/ /\ RapidReturn(rapid, {})
          /\ UNCHANGED <<fromChannels, toChannels>>
       \/ \E cand \in RapidCandidates :
            /\ fromChannels' = cand[1]
            /\ toChannels' = cand[2]
            /\ Wait("rapid_pick", tr, MainCtx, {})
            /\ rapid' = rapid
    /\ UNCHANGED <<params, graph, excludeIn, channels, channelPairs,
                   fromChannelId, toChannelId, chanCache, nodeCache,
                   failureCache, paid, now, pcH, saved, exit>>

\* pickChannelPair(amt, ...) in a rapid iteration returns an error, or the
\* pair and the amount; then rebuildRoute(ctx, route, amt) is called
RapidPick ==
    /\ pc = "rapid_pick" /\ exit = Running
    /\ LET picks == PickChannelPair(tr.amt)
       IN  IF picks = {}
           THEN /\ RapidReturn(rapid, {})
                /\ channelPairs' = channelPairs
           ELSE \E p \in picks :
                  /\ channelPairs' = PairsForPick
                  /\ Wait("rapid_rebuild",
                          [tr EXCEPT !.from = p[1], !.to = p[2], !.amt = p[3]],
                          MainCtx, {Call("rebuildRoute", MainCtx)})
                  /\ rapid' = rapid
    /\ UNCHANGED <<params, graph, excludeIn, channels, fromChannelId,
                   toChannelId, chanCache, nodeCache, failureCache,
                   fromChannels, toChannels, paid, now, pcH, saved, exit>>

\* rebuildRoute returns an error, or the route at amt; then pay is called
\* under a fresh attempt context, with no probing
RapidRebuildReturn ==
    /\ pc = "rapid_rebuild" /\ exit = Running
    /\ \/ RapidReturn(rapid, {})
       \/ /\ ~DeadlineExceeded(callCtx, now)
          /\ DispatchPay("rapid", WithTimeout(MainCtx, TimeoutAttempt, now),
                         tr.amt, params.MinAmount,
                         AtAmount(tr.route, tr.amt * 1000), 0, "rapid_pay", tr,
                         {})
          /\ rapid' = rapid
    /\ UNCHANGED <<params, graph, excludeIn, channels, channelPairs,
                   fromChannelId, toChannelId, chanCache, nodeCache,
                   failureCache, fromChannels, toChannels, paid, now, pcH,
                   saved, exit>>

\* pay of a rapid iteration returns ok or an error; the deadline of the
\* attempt context is looked at first, and rapidAttempt counts the payments
\* that returned ok before it
RapidPayReturn ==
    /\ pc = "rapid_pay" /\ exit = Running
    /\ \E ok \in BOOLEAN :
         LET rp == [rapid EXCEPT !.paidOk = IF ok THEN @ + 1 ELSE @]
         IN  IF DeadlineExceeded(callCtx, now) \/ ~ok
             THEN RapidReturn(rp, {})
             ELSE RapidGetChanInfo("to", chanCache,
                                   [rp EXCEPT !.rapidAttempt = @ + 1,
                                              !.rpcs = {}], tr, {})
    /\ UNCHANGED <<params, graph, excludeIn, channels, channelPairs,
                   fromChannelId, toChannelId, chanCache, nodeCache,
                   failureCache, fromChannels, toChannels, paid, now, pcH,
                   saved, exit>>

----------------------------------------------------------------------------
(* pay in tryRebalance *)

\* the amounts pay may carry in ErrRetry: probing is on, and the probed
\* amount lies in [min_amount, amount)
RetryAmounts ==
    IF params.ProbeSteps > 0
    THEN {a \in ProbeAmounts : params.MinAmount <= a /\ a < tr.amt}
    ELSE {}

ProbedPayWithProbing(t, calls) ==
    DispatchPay("probed", t.attemptCtx, t.amt, params.MinAmount,
                AtAmount(t.route, t.amt * 1000), params.ProbeSteps,
                "pay_probed", t, calls)

\* pay(ctx, amt, 0, probedRoute, 0), ctx being mainCtx and probedRoute the
\* route rebuilt at amt
ProbedPay(t, calls) ==
    DispatchPay("probed", MainCtx, t.amt, 0, AtAmount(t.route, t.amt * 1000),
                0, "pay_probed", t, calls)

\* pay(attemptCtx, amt, params.MinAmount, route, params.ProbeSteps) returns:
\* ok, ErrRetry{a} or another error
PayReturn ==
    /\ pc = "pay" /\ exit = Running
    /\ \/ /\ paid' = TRUE
          /\ IF params.AllowRapidRebalance
             THEN StartRapid(tr, {})
             ELSE /\ Finish("paid", PaidRetry, {})
                  /\ rapid' = rapid
       \/ /\ ~DeadlineExceeded(callCtx, now)
          /\ \E a \in RetryAmounts :
               LET t == [tr EXCEPT !.amt = a]
               IN  \/ NextRoute(t, {Call("rebuildRoute", tr.attemptCtx)})
                   \/ ProbedPay(t, {Call("rebuildRoute", tr.attemptCtx)})
          /\ UNCHANGED <<paid, rapid>>
       \/ /\ NextRoute(tr, {})
          /\ UNCHANGED <<paid, rapid>>
    /\ UNCHANGED <<params, graph, excludeIn, channels, channelPairs, fromChannelId, toChannelId, chanCache, nodeCache, failureCache,
                   fromChannels, toChannels, now, pcH, saved, exit>>

\* pay(ctx, amt, 0, probedRoute, 0) returns ok or an error
PayProbedReturn ==
    /\ pc = "pay_probed" /\ exit = Running
    /\ \/ /\ paid' = TRUE
          /\ IF params.AllowRapidRebalance /\ params.MinAmount > 0
             THEN StartRapid(tr, {})
             ELSE /\ Finish("paid", PaidRetry, {})
                  /\ rapid' = rapid
       \/ /\ NextRoute(tr, {})
          /\ UNCHANGED <<paid, rapid>>
    /\ UNCHANGED <<params, graph, excludeIn, channels, channelPairs, fromChannelId, toChannelId, chanCache, nodeCache, failureCache,
                   fromChannels, toChannels, now, pcH, saved, exit>>

----------------------------------------------------------------------------
(* The end of the process, the interrupt handler and the clock *)

MainReturnNoSave ==
    /\ pc = "main_return" /\ exit = Running
    /\ pc' = "main_saving"
    /\ UNCHANGED <<params, graph, excludeIn, channels, channelPairs, fromChannelId, toChannelId, chanCache, nodeCache, failureCache,
                   fromChannels, toChannels, tr, callCtx, rapid, query,
                   lastCalls, lastPay, result, paid, now, pcH, saved, exit>>

\* main returns: the deferred saveNodeCache starts reading r.nodeCache
MainReturn ==
    /\ pc = "main_return" /\ exit = Running
    /\ pc' = "main_saving"
    /\ saved' = saved \cup {"main"}
    /\ UNCHANGED <<params, graph, excludeIn, channels, channelPairs, fromChannelId, toChannelId, chanCache, nodeCache, failureCache,
                   fromChannels, toChannels, tr, callCtx, rapid, query,
                   lastCalls, lastPay, result, paid, now, pcH, exit>>

\* the deferred saveNodeCache is done and the process ends
MainExit ==
    /\ pc = "main_saving" /\ exit = Running
    /\ pc' = "exited"
    /\ exit' = [code |-> MainExitCode, by |-> "main", msg |-> ""]
    /\ UNCHANGED <<params, graph, excludeIn, channels, channelPairs, fromChannelId, toChannelId, chanCache, nodeCache, failureCache,
                   fromChannels, toChannels, tr, callCtx, rapid, query,
                   lastCalls, lastPay, result, paid, now, pcH, saved>>

\* os.Interrupt arrives: the handler goroutine calls saveNodeCache, which
\* starts reading r.nodeCache
Interrupt ==
    /\ pcH = "waiting" /\ exit = Running
    /\ pcH' = "saving"
    /\ saved' = saved \cup {"handler"}
    /\ UNCHANGED <<params, graph, excludeIn, channels, channelPairs, fromChannelId, toChannelId, chanCache, nodeCache, failureCache,
                   fromChannels, toChannels, pc, tr, callCtx, rapid, query,
                   lastCalls, lastPay, result, paid, now, exit>>

\* saveNodeCache of the handler is done: os.Exit(1)
HandlerExit ==
    /\ pcH = "saving" /\ exit = Running
    /\ pcH' = "done"
    /\ exit' = [code |-> HandlerExitCode, by |-> "interrupt", msg |-> ""]
    /\ UNCHANGED <<params, graph, excludeIn, channels, channelPairs, fromChannelId, toChannelId, chanCache, nodeCache, failureCache,
                   fromChannels, toChannels, pc, tr, callCtx, rapid, query,
                   lastCalls, lastPay, result, paid, now, saved>>

\* the main goroutine is blocked in an RPC or in pay
Blocked ==
    pc \in {"get_chan_info", "query_routes", "get_node_info", "pay",
            "pay_probed", "rapid_chan_info", "rapid_list_from",
            "rapid_list_to", "rapid_rebuild", "rapid_pay"}

\* time passes while a call is in progress; a call returns once the
\* deadline of its context has passed
Tick ==
    /\ Blocked /\ exit = Running
    /\ now < MaxTime
    /\ ~DeadlineExceeded(callCtx, now)
    /\ now' = now + 1
    /\ UNCHANGED <<params, graph, excludeIn, channels, channelPairs, fromChannelId, toChannelId, chanCache, nodeCache, failureCache,
                   fromChannels, toChannels, pc, tr, callCtx, rapid, query,
                   lastCalls, lastPay, result, paid, pcH, saved, exit>>

Next ==
    \/ Startup
    \/ TryRebalance
    \/ GetChanInfoReturn
    \/ QueryRoutesReturn
    \/ GetNodeInfoReturn
    \/ NodeCacheWrite
    \/ PayReturn
    \/ PayProbedReturn
    \/ RapidChanInfoReturn
    \/ RapidListFromReturn
    \/ RapidListToReturn
    \/ RapidGetChannelCandidates
    \/ RapidPick
    \/ RapidRebuildReturn
    \/ RapidPayReturn
    \/ MainReturn
    \/ MainExit
    \/ Interrupt
    \/ HandlerExit
    \/ Tick

Spec == Init /\ [][Next]_vars

\* The session under fair scheduling.  The code of the main goroutine
\* between two calls runs on; a call returns once the deadline of the
\* context it was given has passed; time passes while a call is in
\* progress; the handler, once interrupted, saves and exits.  Nothing makes
\* an interrupt arrive, and nothing makes a call return before its deadline.
Fairness ==
    /\ WF_vars(Startup)
    /\ WF_vars(TryRebalance)
    /\ WF_vars(NodeCacheWrite)
    /\ WF_vars(RapidGetChannelCandidates)
    /\ WF_vars(RapidPick)
    /\ WF_vars(MainReturn)
    /\ WF_vars(MainExit)
    /\ WF_vars(HandlerExit)
    /\ SF_vars(Tick)
    /\ WF_vars(DeadlineExceeded(callCtx, now) /\ GetChanInfoReturn)
    /\ WF_vars(DeadlineExceeded(callCtx, now) /\ QueryRoutesReturn)
    /\ WF_vars(DeadlineExceeded(callCtx, now) /\ GetNodeInfoReturn)
    /\ WF_vars(DeadlineExceeded(callCtx, now) /\ PayReturn)
    /\ WF_vars(DeadlineExceeded(callCtx, now) /\ PayProbedReturn)
    /\ WF_vars(DeadlineExceeded(callCtx, now) /\ RapidChanInfoReturn)
    /\ WF_vars(DeadlineExceeded(callCtx, now) /\ RapidListFromReturn)
    /\ WF_vars(DeadlineExceeded(callCtx, now) /\ RapidListToReturn)
    /\ WF_vars(DeadlineExceeded(callCtx, now) /\ RapidRebuildReturn)
    /\ WF_vars(DeadlineExceeded(callCtx, now) /\ RapidPayReturn)

SpecLive == Init /\ [][Next]_vars /\ Fairness

----------------------------------------------------------------------------
(* getRoutes on its own, over a wider range of edges, amounts and fee
   configurations *)

RouteConfigs ==
    { Config(0, 0, 0, FALSE, ratio, maxPPM, limitPPM) :
        ratio \in {Ratio(0, 1), Ratio(1, 2), Ratio(1, 1), Ratio(2, 1)},
        maxPPM \in {0, 100}, limitPPM \in {0, 100} }

RouteAmountsMsat == {0, 1999, 3000, 1000000, 100000000}

\* the edge of the target channel: either orientation, either assignment of
\* the two policies, or a peer key that is not hexadecimal
RouteEdges ==
    { Edge(MyPK, PeerOf(3), OurPolicy, TheirPolicy),
      Edge(MyPK, PeerOf(3), TheirPolicy, OurPolicy),
      Edge(PeerOf(3), MyPK, OurPolicy, TheirPolicy),
      Edge(PeerOf(3), MyPK, TheirPolicy, OurPolicy),
      Edge(MyPK, "zz", OurPolicy, TheirPolicy) }

InitRoutes ==
    /\ params \in {PreflightFee(c).params :
                     c \in {x \in RouteConfigs : PreflightFee(x).ok}}
    /\ graph \in {[GraphAsNode1 EXCEPT ![3] = e] : e \in RouteEdges}
    /\ pc = "getRoutes"
    /\ InitCommon

\* what the steps of this specification leave alone
RoutesFrame ==
    UNCHANGED <<params, graph, excludeIn, channels, channelPairs,
                fromChannelId, toChannelId, nodeCache, failureCache,
                fromChannels, toChannels, pc, callCtx, rapid, lastPay, paid,
                now, pcH, saved, exit>>

\* getRoutes fails in getChanInfo: the GetChanInfo RPC returned an error
GetRoutesChanInfoError ==
    /\ pc = "getRoutes"
    /\ \E t \in ToChans :
         /\ chanCache[t] = NoEdge
         /\ lastCalls' = {Call("GetChanInfo",
                               WithTimeout(Background, GetRoutesTimeout, now))}
    /\ query' = NoQuery
    /\ tr' = NoTr
    /\ result' = [NoResult EXCEPT !.cause = "getRoutes_error"]
    /\ chanCache' = chanCache
    /\ RoutesFrame

\* getRoutes gets the edge, from the cache or from the node, and goes on to
\* the route query, which returns routes or an error
GetRoutes ==
    /\ pc = "getRoutes"
    /\ \E f \in FromChans, t \in ToChans, amtMsat \in RouteAmountsMsat :
         LET gctx == WithTimeout(Background, GetRoutesTimeout, now)
             info == getChanInfo(chanCache, graph, t)
             c == info.edge
             calls == IF info.rpc THEN {Call("GetChanInfo", gctx)} ELSE {}
             q == QueryRoutesRequest(c, f, amtMsat, params.EconRatio)
         IN  /\ chanCache' = [chanCache EXCEPT ![t] = c]
             /\ IF ~HexDecodeOk(SelectLastPK(c))
                THEN /\ query' = NoQuery
                     /\ lastCalls' = calls
                     /\ tr' = NoTr
                     /\ result' = [NoResult EXCEPT !.cause = "getRoutes_error"]
                ELSE /\ query' = q
                     /\ lastCalls' = calls \cup {Call("QueryRoutes", gctx)}
                     /\ \/ /\ tr' = NoTr
                           /\ result' = [NoResult EXCEPT
                                           !.cause = "getRoutes_error"]
                        \/ \E rs \in RouteAnswers(q.AmtMsat, q.FixedMsat) :
                             /\ tr' = [NoTr EXCEPT !.routes = rs]
                             /\ result' = [NoResult EXCEPT
                                             !.cause = "getRoutes_ok"]
    /\ RoutesFrame

\* a policy of the target channel is updated in the node's graph between
\* two calls of getRoutes
PolicyUpdate ==
    /\ pc = "getRoutes"
    /\ \E t \in ToChans, e \in RouteEdges :
         /\ e # graph[t]
         /\ e.Node1Pub = graph[t].Node1Pub /\ e.Node2Pub = graph[t].Node2Pub
         /\ graph' = [graph EXCEPT ![t] = e]
    /\ UNCHANGED <<params, chanCache, nodeCache, failureCache, fromChannels,
                   toChannels, excludeIn, channels, channelPairs,
                   fromChannelId, toChannelId, pc, tr, callCtx, rapid, query,
                   lastCalls, lastPay, result, paid, now, pcH, saved, exit>>

NextRoutes ==
    \/ GetRoutesChanInfoError
    \/ GetRoutes
    \/ PolicyUpdate

SpecRoutes == InitRoutes /\ [][NextRoutes]_vars

----------------------------------------------------------------------------
(* preflightChecks on its own, over the amount modes *)

PreflightAmounts == {-1, 0, 1000, 100000}
PreflightMinAmounts == {0, 1000, 200000}
PreflightRelAmounts == {Ratio(0, 1), Ratio(1, 5)}

PreflightConfigs ==
    { [Config(amount, minAmount, 0, allow, Ratio(0, 1), maxPPM, limitPPM)
         EXCEPT !.RelAmountFrom = relFrom, !.RelAmountTo = relTo] :
        amount \in PreflightAmounts, minAmount \in PreflightMinAmounts,
        allow \in BOOLEAN, maxPPM \in {0, 100}, limitPPM \in {0, 100},
        relFrom \in PreflightRelAmounts, relTo \in PreflightRelAmounts }

\* main, after the flags were parsed into params
InitPreflight ==
    /\ params \in PreflightConfigs
    /\ graph = GraphAsNode1
    /\ pc = "preflight"
    /\ InitCommon

\* main.go:452-456: preflightChecks, and log.Fatal when it returns an error
PreflightChecks ==
    /\ pc = "preflight" /\ exit = Running
    /\ LET res == preflightChecks(params)
       IN  /\ params' = res.params
           /\ IF res.err # NoError
              THEN /\ exit' = Fatal(res.err)
                   /\ pc' = "exited"
              ELSE /\ exit' = exit
                   /\ pc' = "preflight_done"
    /\ UNCHANGED <<graph, chanCache, nodeCache, failureCache, fromChannels,
                   toChannels, excludeIn, channels, channelPairs,
                   fromChannelId, toChannelId, tr, callCtx, rapid, query,
                   lastCalls, lastPay, result, paid, now, pcH, saved>>

NextPreflight == PreflightChecks

SpecPreflight == InitPreflight /\ [][NextPreflight]_vars

----------------------------------------------------------------------------
(* convertChanStringToInt on its own: main.go:536 over one or two strings *)

\* ids at the ends and in the middle of the range, for lists of two
ChanIdSamples == {0, Pow2(IdBits - 1) - 1, Pow2(IdBits - 1), Pow2(IdBits) - 1}

\* params.ExcludeChannelsIn: every id in decimal form and in scid form, an
\* upper-case scid, a negative number, strings of neither form, and lists
\* of two
ChanIdLists ==
    {<<FormatUint(id)>> : id \in AllChanIds}
        \cup {<<FormatScid(id)>> : id \in AllChanIds}
        \cup {<<FormatUint(a), FormatScid(b)>> : a, b \in ChanIdSamples}
        \cup {<< <<"1", "X", "2", "X", "3">> >>, << <<"-", "1">> >>,
              << <<"1", "x", "2">> >>, << <<"x", "x">> >>, << <<>> >>, <<>>}

InitChanId ==
    /\ params \in {[Config(100000, 0, 0, FALSE, Ratio(1, 1), 0, 0)
                      EXCEPT !.ExcludeChannelsIn = l] : l \in ChanIdLists}
    /\ graph = GraphAsNode1
    /\ pc = "convert"
    /\ InitCommon

\* main.go:536: r.excludeIn = makeChanSet(convertChanStringToInt(...))
ConvertExcludeIn ==
    /\ pc = "convert" /\ exit = Running
    /\ LET res == convertChanStringToInt(params.ExcludeChannelsIn)
       IN  IF res.fatal
           THEN /\ exit' = Fatal("error: parsing Channel with Id")
                /\ pc' = "exited"
                /\ excludeIn' = excludeIn
           ELSE /\ excludeIn' = makeChanSet(res.channels)
                /\ pc' = "converted"
                /\ exit' = exit
    /\ UNCHANGED <<params, graph, chanCache, nodeCache, failureCache,
                   fromChannels, toChannels, channels, channelPairs,
                   fromChannelId, toChannelId, tr, callCtx, rapid, query,
                   lastCalls, lastPay, result, paid, now, pcH, saved>>

NextChanId == ConvertExcludeIn

SpecChanId == InitChanId /\ [][NextChanId]_vars

----------------------------------------------------------------------------
(* The claims *)

MinOf(S) == CHOOSE x \in S : \A y \in S : x <= y

\* the fee ceiling getRoutes computes for a payment of a sat into the
\* target channel whose edge is c
FeeCeiling(a, c) ==
    FeeLimitMsat(calcFeeMsat(a * 1000, SelectPolicy(c)), params.EconRatio)

\* C1: every payment dispatched (first, probed retry, rapid) goes along a
\* route whose network fee is at most the fee ceiling computed for the
\* amount of that payment.
C1_PaymentWithinFeeCeiling ==
    lastPay.kind # "none" =>
        RouteFee(lastPay.route) <= FeeCeiling(lastPay.amt, graph[tr.to])

\* C2: when getRoutes failed on the route deadline and the session deadline
\* has not passed, main goes on with another tryRebalance.
C2_RouteTimeoutKeepsSession ==
    (result.cause = "route_timeout" /\ ~result.timedOut) => pc = "main_loop"

\* C3: a session that timed out before any payment succeeded exits with
\* code 1, and exit code 0 is produced only when a rebalance succeeded.
C3_ExitCodeTellsSuccess ==
    /\ (exit.by = "main" /\ result.timedOut /\ ~paid) => exit.code = 1
    /\ exit.code = 0 => paid

\* C4: when pickChannelPair returns an error, tryRebalance returns
\* retry = FALSE, having issued no route query and no payment and having
\* left the failure cache alone, and main ends the session without another
\* attempt.
C4_PickErrorEndsSession ==
    /\ [](result.cause = "pick_error" =>
            /\ ~result.retry
            /\ lastCalls = {} /\ query = NoQuery /\ lastPay = NoPay
            /\ pc \in {"main_return", "main_saving", "exited"})
    /\ [][(result'.cause = "pick_error" /\ result.cause # "pick_error") =>
            failureCache' = failureCache]_vars

C4_Witness ==
    /\ result.cause = "pick_error"
    /\ ~result.timedOut
    /\ failureCache # {}
    /\ exit.by = "main"

\* C5 as claimed: the policy getRoutes uses is the policy of the endpoint
\* of the target edge that is not our own node.
C5_PeerPolicySelected ==
    query # NoQuery =>
        query.policy = (IF query.edge.Node1Pub = MyPK
                        THEN query.edge.Node2Policy
                        ELSE query.edge.Node1Policy)

\* C5 as amended: the policy getRoutes uses is our own node's policy on the
\* target edge, whether our node is Node1 or Node2 of it; the peer is the
\* last hop of the query.
C5_OwnPolicySelected ==
    query # NoQuery =>
        /\ query.edge.Node1Pub = MyPK => query.policy = query.edge.Node1Policy
        /\ query.edge.Node2Pub = MyPK => query.policy = query.edge.Node2Policy
        /\ query.LastHopPubkey # MyPK
        /\ query.LastHopPubkey \in {query.edge.Node1Pub, query.edge.Node2Pub}

C5_Witness ==
    /\ query # NoQuery
    /\ query.edge.Node2Pub = MyPK
    /\ query.edge.Node1Policy # query.edge.Node2Policy
    /\ query.policy = query.edge.Node2Policy

\* C6: the fee limit of the route query is the minimum over the enabled
\* modes of policy_fee x econ_ratio, amt_msat x econ_ratio_max_ppm / 1e6 and
\* amt_msat x fee_limit_ppm / 1e6.
C6_FeeLimitIsMinOfModes ==
    query # NoQuery =>
        query.FixedMsat = MinOf(
            (IF params.EconRatio.n > 0
             THEN {FeeLimitMsat(calcFeeMsat(query.AmtMsat, query.policy),
                                params.EconRatio)}
             ELSE {})
            \cup (IF params.EconRatioMaxPPM # 0
                  THEN {MulDiv(query.AmtMsat, params.EconRatioMaxPPM, Million)}
                  ELSE {})
            \cup (IF params.FeeLimitPPM # 0
                  THEN {MulDiv(query.AmtMsat, params.FeeLimitPPM, Million)}
                  ELSE {}))

\* C7: with econ_ratio = 1 the fee limit of the route query is
\* base_msat + floor(amt_msat x rate_ppm / 1e6) of the policy used: 51000
\* msat for base 1000, rate 500 and 100000000 msat.
C7_FeeLimitIsPolicyFee ==
    (query # NoQuery /\ params.EconRatio = Ratio(1, 1)) =>
        LET a == query.AmtMsat
            base == query.policy.FeeBaseMsat
            rate == query.policy.FeeRateMilliMsat
        IN  /\ a <= Million =>
                \E q \in 0..rate :
                    /\ q * Million <= a * rate
                    /\ a * rate < (q + 1) * Million
                    /\ query.FixedMsat = base + q
            /\ (a = 100000000 /\ base = 1000 /\ rate = 500) =>
                query.FixedMsat = 51000

C7_Witness ==
    /\ query # NoQuery
    /\ params.EconRatio = Ratio(1, 1)
    /\ query.AmtMsat = 100000000
    /\ query.policy = Policy(1000, 500)
    /\ query.FixedMsat = 51000

\* C8: every RPC and pay call runs under a context that descends from the
\* session context, with a deadline no later than the session deadline.
C8_CallsUnderSessionContext ==
    \A c \in lastCalls :
        c.ctx.session /\ c.ctx.deadline <= MainCtx.deadline

\* C9: saveNodeCache of the interrupt handler never reads r.nodeCache while
\* the main goroutine is inserting into it.
C9_NoNodeCacheRace == ~(pcH = "saving" /\ pc = "node_cache_write")

\* C10: once startup has completed, the process ends only after a call of
\* saveNodeCache by the goroutine that ends it, and an interrupt ends it
\* with a non-zero exit code.
C10_SavedBeforeExit ==
    /\ exit.by = "main" => "main" \in saved
    /\ exit.by = "interrupt" => ("handler" \in saved /\ exit.code # 0)

C10_Witness ==
    /\ exit.by = "main"
    /\ result.cause = "route_timeout"
    /\ "main" \in saved

\* the number of amount modes set to a positive value
AmountModesSet(p) ==
    Cardinality({m \in {"amount", "rel_amount_to", "rel_amount_from"} :
        \/ m = "amount" /\ p.Amount > 0
        \/ m = "rel_amount_to" /\ p.RelAmountTo.n > 0
        \/ m = "rel_amount_from" /\ p.RelAmountFrom.n > 0})

\* C11: preflightChecks accepts a configuration only if exactly one of
\* amount, rel_amount_to and rel_amount_from is set to a positive value;
\* with none of them, or more than one, the configuration is rejected.
C11_ExactlyOneAmountMode ==
    pc = "preflight_done" => AmountModesSet(params) = 1

\* C12: when classification at startup leaves no source channel or no
\* target channel, the process ends with the fatal error "No source
\* channels selected" / "No target channels selected" and a non-zero exit
\* code, before any pair is picked, any route queried, any payment made.
C12_EmptySetsAreFatal ==
    /\ (pc # "startup" /\ rapid.runs = 0
            /\ (fromChannels = {} \/ toChannels = {})) =>
          /\ exit.by = "fatal" /\ exit.code # 0
          /\ exit.msg = (IF fromChannels = {}
                         THEN "No source channels selected"
                         ELSE "No target channels selected")
    /\ exit.by = "fatal" =>
          /\ pc = "exited"
          /\ lastCalls = {} /\ query = NoQuery /\ lastPay = NoPay
          /\ tr = NoTr /\ result = NoResult /\ ~paid
          /\ channelPairs = {} /\ failureCache = {}

C12_Witness ==
    /\ exit.by = "fatal"
    /\ exit.msg = "No target channels selected"
    /\ fromChannels # {} /\ toChannels = {}

\* C13: for every channel id, convertChanStringToInt of the decimal string
\* of the id, and of its BBBxTTTxOOO form, yields that id: no id is rejected
\* or altered.
C13_ChanIdRoundTrip ==
    \A id \in AllChanIds :
        (pc # "convert"
            /\ params.ExcludeChannelsIn
                 \in {<<FormatUint(id)>>, <<FormatScid(id)>>}) =>
          (exit = Running /\ excludeIn = {id})

\* C14: the count tryRapidRebalance returns is the number of rapid
\* iterations whose pay call succeeded, whichever way the loop ended.
C14_RapidCountIsSuccesses ==
    rapid.returned # -1 => rapid.returned = rapid.paidOk

\* the places of a rapid iteration after its two getChanInfo calls
RapidAfterChanInfo ==
    {"rapid_list_from", "rapid_list_to", "rapid_candidates", "rapid_pick",
     "rapid_rebuild", "rapid_pay"}

\* C15: every rapid iteration issues a GetChanInfo RPC for the source
\* channel and one for the target channel.
C15_ChanInfoRefetched ==
    pc \in RapidAfterChanInfo => rapid.rpcs = {"to", "from"}

\* the places of a rapid iteration after the reset of the working state
RapidAfterReset ==
    {"rapid_candidates", "rapid_pick", "rapid_rebuild", "rapid_pay"}

\* C16: in every rapid iteration the working state is reset (inclusion sets
\* exactly {from} and {to}; channels, fromChannels, toChannels, failureCache
\* and channelPairs emptied or replaced), then getChannelCandidates runs,
\* then a pair is picked, then the route is rebuilt, then pay is called; when
\* candidate derivation, picking or rebuilding fails the driver returns and
\* no payment is dispatched.
C16_RapidIterationOrder ==
    /\ [](/\ pc \in RapidAfterReset =>
                /\ fromChannelId = {tr.from} /\ toChannelId = {tr.to}
                /\ failureCache = {}
                /\ channels = {tr.from, tr.to}
          /\ pc = "rapid_candidates" =>
                fromChannels = {} /\ toChannels = {} /\ channelPairs = {}
          /\ pc \in {"rapid_rebuild", "rapid_pay"} =>
                /\ fromChannels = {tr.from} /\ toChannels = {tr.to}
                /\ channelPairs = {<<tr.from, tr.to>>}
          /\ pc = "rapid_pay" => tr.route.amtMsat = tr.amt * 1000)
    /\ [][/\ (pc' = "rapid_candidates" /\ pc' # pc) => pc = "rapid_list_to"
          /\ (pc' = "rapid_pick" /\ pc' # pc) => pc = "rapid_candidates"
          /\ (pc' = "rapid_rebuild" /\ pc' # pc) => pc = "rapid_pick"
          /\ (pc' = "rapid_pay" /\ pc' # pc) =>
                pc = "rapid_rebuild" /\ lastPay'.kind = "rapid"
          /\ (lastPay'.kind = "rapid" /\ lastPay.kind # "rapid") =>
                pc = "rapid_rebuild"
          /\ (pc \in {"rapid_candidates", "rapid_pick", "rapid_rebuild"}
                /\ pc' \notin RapidAfterReset) =>
                /\ lastPay' = NoPay
                /\ rapid'.returned = rapid.rapidAttempt
                /\ pc' \in {"main_loop", "main_return"}]_vars

C16_Witness ==
    /\ pc = "rapid_pay"
    /\ lastPay.kind = "rapid"
    /\ rapid.rapidAttempt = 1
    /\ rapid.paidOk = 1

\* a step of the main goroutine: not one of the handler, nor of the clock
WorkerStep == pcH' = pcH /\ now' = now

\* C17: when pay returns ErrRetry{a'} on a route, the route is rebuilt at a'
\* and pay is called at most once more for that route, with probe_steps = 0
\* and min_amount = 0, under the session context; whatever that second call
\* returns, no further payment on the route follows; and when rebuilding
\* fails no payment on the route is made at a'.
C17_ProbedPayOnce ==
    /\ [](lastPay.kind = "probed" =>
            /\ pc = "pay_probed"
            /\ lastPay.ctx = MainCtx
            /\ lastPay.probeSteps = 0 /\ lastPay.minAmount = 0
            /\ lastPay.amt = tr.amt
            /\ lastPay.route = AtAmount(tr.routes[tr.ri], tr.amt * 1000))
    /\ [][/\ (lastPay'.kind = "probed" /\ lastPay.kind # "probed") =>
                /\ pc = "pay" /\ lastPay.kind = "first"
                /\ tr'.ri = tr.ri
                /\ tr'.amt \in RetryAmounts
                /\ Call("rebuildRoute", tr.attemptCtx) \in lastCalls'
          /\ (pc = "pay_probed" /\ pc' # pc) =>
                /\ lastPay'.kind # "probed"
                /\ lastPay'.kind = "first" => tr'.ri = tr.ri + 1
          /\ (pc = "pay" /\ WorkerStep /\ lastPay'.kind # "probed"
                /\ Call("rebuildRoute", tr.attemptCtx) \in lastCalls') =>
                \/ lastPay' = NoPay
                \/ lastPay'.kind = "first" /\ tr'.ri = tr.ri + 1]_vars

C17_Witness ==
    /\ pc = "pay_probed"
    /\ lastPay.kind = "probed"
    /\ params.ProbeSteps > 0 /\ params.MinAmount > 0
    /\ lastPay.amt < params.Amount
    /\ tr.ri = 2

\* C18: when getRoutes returns an error and the route deadline has not been
\* exceeded, the picked pair is added to the failure cache, no payment is
\* dispatched and tryRebalance returns retry = TRUE; when the route deadline
\* has been exceeded the failure cache is left as it was.
C18_RouteErrorMarksPair ==
    /\ [](result.cause = "route_error" =>
            /\ result.retry
            /\ lastPay = NoPay /\ ~paid
            /\ failureCache # {})
    /\ [][(pc \in {"get_chan_info", "query_routes"}
             /\ pc' \in {"main_loop", "main_return"}) =>
            /\ lastPay' = NoPay
            /\ IF DeadlineExceeded(tr.routeCtx, now)
               THEN /\ failureCache' = failureCache
                    /\ result'.cause = "route_timeout"
               ELSE /\ failureCache' = failureCache \cup {<<tr.from, tr.to>>}
                    /\ result'.cause = "route_error"
                    /\ result'.retry]_vars

C18_Witness ==
    /\ result.cause = "route_error"
    /\ pc = "main_loop"
    /\ failureCache = {<<1, 3>>}
    /\ now = 0

\* C19: when every candidate route of the picked pair has failed in pay,
\* the pair is in the failure cache by the time tryRebalance returns, so
\* that the next pick skips it.
C19_PayFailureMarksPair ==
    [][(pc \in {"pay", "pay_probed"} /\ result'.cause = "routes_done") =>
          <<tr.from, tr.to>> \in failureCache']_vars

\* the places of tryRebalance, and those of tryRapidRebalance
RegularPlaces ==
    {"main_loop", "get_chan_info", "query_routes", "get_node_info",
     "node_cache_write", "pay", "pay_probed"}

RapidPlaces ==
    {"rapid_chan_info", "rapid_list_from", "rapid_list_to",
     "rapid_candidates", "rapid_pick", "rapid_rebuild", "rapid_pay"}

\* C20: once a payment has succeeded in tryRebalance, tryRebalance returns
\* retry = FALSE whatever rapid rebalance does, and the session makes no
\* further regular pick, route query or payment; rapid rebalance is entered
\* at most once per session, only after a successful payment, only when
\* allow_rapid_rebalance is set, and after a probed success only when
\* min_amount > 0.
C20_PaymentEndsSession ==
    /\ [](/\ paid => pc \notin RegularPlaces
          /\ result.cause = "paid" => (paid /\ ~result.retry)
          /\ rapid.runs <= 1
          /\ rapid.runs = 1 => (paid /\ params.AllowRapidRebalance)
          /\ pc \in RapidPlaces => rapid.runs = 1)
    /\ [][/\ (paid' /\ ~paid) => pc \in {"pay", "pay_probed"}
          /\ rapid'.runs # rapid.runs =>
                /\ paid' /\ ~paid
                /\ pc = "pay_probed" => params.MinAmount > 0
          /\ (pc \in RapidPlaces /\ pc' \notin RapidPlaces) =>
                /\ pc' = "main_return"
                /\ result'.cause = "paid" /\ ~result'.retry]_vars

C20_Witness ==
    /\ paid
    /\ rapid.runs = 1
    /\ rapid.returned = 1
    /\ result.cause = "paid"
    /\ ~result.timedOut
    /\ exit.by = "main"

\* a GetChanInfo RPC is among the calls
HasGetChanInfo(calls) == \E c \in calls : c.op = "GetChanInfo"

\* C21: the channel-edge cache lasts as long as the process: no entry is
\* ever removed or replaced; once a channel id is cached, every later
\* getChanInfo for it returns the cached edge and makes no RPC; and a failed
\* GetChanInfo RPC leaves the cache as it was and getRoutes returns the
\* error.
C21_ChanCacheIsProcessLifetime ==
    /\ [](\A t \in ToChans :
            (chanCache[t] = NoEdge /\ HasGetChanInfo(lastCalls)) =>
                (result.cause = "getRoutes_error" /\ query = NoQuery))
    /\ [][/\ \A c \in ChanIds :
                chanCache[c] # NoEdge => chanCache'[c] = chanCache[c]
          /\ \A t \in ToChans :
               (graph' = graph /\ chanCache[t] # NoEdge) =>
                  /\ ~HasGetChanInfo(lastCalls')
                  /\ query' # NoQuery => query'.edge = chanCache[t]
          /\ \A t \in ToChans :
               (graph' = graph /\ chanCache[t] = NoEdge) =>
                  /\ HasGetChanInfo(lastCalls')
                  /\ chanCache'[t] \in {NoEdge, graph[t]}]_vars

C21_Witness ==
    /\ query # NoQuery
    /\ ~HasGetChanInfo(lastCalls)
    /\ query.edge = chanCache[3]
    /\ chanCache[3] # graph[3]

\* C22: within one tryRebalance, the first payment on every candidate route
\* is for the amount the pair picker returned, the amount the routes were
\* queried for; an ErrRetry on an earlier route does not change it.
C22_FirstPayUsesPickedAmount ==
    lastPay.kind = "first" =>
        /\ lastPay.amt = params.Amount
        /\ lastPay.route.amtMsat = lastPay.amt * 1000

\* C23: when every RPC and pay call returns once the deadline of its
\* context has passed, the session always ends: main eventually returns (or
\* the process exits); and once the session deadline has passed no new
\* tryRebalance is started and no new rapid payment is dispatched.
C23_SessionTerminates ==
    /\ <>(exit # Running)
    /\ [](pc = "main_loop" => ~DeadlineExceeded(MainCtx, now))
    /\ [][(lastPay'.kind = "rapid" /\ lastPay.kind # "rapid") =>
            ~DeadlineExceeded(MainCtx, now)]_vars

====
